---- MODULE Spec2Model ----
(***************************************************************************)
(* Model of sleep_scheduler.py: the SleepScheduler window (countdown       *)
(* state, QTimer, controls), its delayed_action worker threads, the        *)
(* settings file and the ring display.                                     *)
(*                                                                         *)
(* Time passes in whole seconds.  time.sleep(delay) returns no earlier     *)
(* than delay seconds after the call and the QTimer delivers its timeouts  *)
(* no closer than one interval apart; neither has an upper bound (thread   *)
(* scheduling and event-loop latency are not under the program's control), *)
(* and nothing in the code orders a worker against the timer.              *)
(***************************************************************************)
EXTENDS Integers, Sequences, FiniteSets, TLC

\* ---------------------------------------------------------------- bounds
MaxDelay == 2
MaxWorkers == 2
PaintTotal == 3599

\* ------------------------------------------------------- text <-> integer
Digits == <<"0", "1", "2", "3", "4", "5", "6", "7", "8", "9">>

IsDigit(c) == \E d \in 1..10 : Digits[d] = c

DigitVal(c) == (CHOOSE d \in 1..10 : Digits[d] = c) - 1

IsSpace(c) == c = " "

RECURSIVE NatToStr(_)
NatToStr(n) ==
    IF n < 10 THEN <<Digits[n + 1]>>
    ELSE NatToStr(n \div 10) \o <<Digits[(n % 10) + 1]>>

\* str(int)
IntToStr(n) == IF n < 0 THEN <<"-">> \o NatToStr(-n) ELSE NatToStr(n)

RECURSIVE LStrip(_)
LStrip(t) == IF t # <<>> /\ IsSpace(Head(t)) THEN LStrip(Tail(t)) ELSE t

RECURSIVE RStrip(_)
RStrip(t) ==
    IF t # <<>> /\ IsSpace(t[Len(t)]) THEN RStrip(SubSeq(t, 1, Len(t) - 1)) ELSE t

Strip(t) == RStrip(LStrip(t))

\* the digit part of an integer literal: digits, single underscores between
DigitsOk(b) ==
    /\ b # <<>>
    /\ IsDigit(b[1])
    /\ IsDigit(b[Len(b)])
    /\ \A i \in 1..Len(b) : IsDigit(b[i]) \/ b[i] = "_"
    /\ \A i \in 1..(Len(b) - 1) : ~(b[i] = "_" /\ b[i + 1] = "_")

RECURSIVE DigitsValue(_, _)
DigitsValue(b, acc) ==
    IF b = <<>> THEN acc
    ELSE IF Head(b) = "_" THEN DigitsValue(Tail(b), acc)
    ELSE DigitsValue(Tail(b), acc * 10 + DigitVal(Head(b)))

\* int(text): [ok |-> FALSE] stands for ValueError
ParseInt(t) ==
    LET s == Strip(t)
        signed == s # <<>> /\ s[1] \in {"+", "-"}
        body == IF signed THEN Tail(s) ELSE s
    IN  IF DigitsOk(body)
        THEN [ok |-> TRUE,
              val |-> IF signed /\ s[1] = "-" THEN -DigitsValue(body, 0)
                      ELSE DigitsValue(body, 0)]
        ELSE [ok |-> FALSE, val |-> 0]

\* what the user can type into the seconds field
Texts ==
    {IntToStr(n) : n \in (-1)..MaxDelay}
        \cup {<<"a">>, <<" ", "1">>}

Actions == {"Sleep", "Hibernate"}

\* ------------------------------------------------------------ settings.json
JInt(n) == [t |-> "int", v |-> n, s |-> ""]
JBool(b) == [t |-> "bool", v |-> IF b THEN 1 ELSE 0, s |-> ""]
JStr(x) == [t |-> "str", v |-> 0, s |-> x]
JNull == [t |-> "null", v |-> 0, s |-> ""]

NoFile == [kind |-> "missing", last_duration |-> JNull, last_action |-> JNull]
BadFile == [kind |-> "corrupt", last_duration |-> JNull, last_action |-> JNull]
FileOf(d, a) == [kind |-> "json", last_duration |-> d, last_action |-> a]

\* the files the program may find at start-up
StartFiles ==
    {NoFile, FileOf(JInt(1), JStr("Hibernate"))}

\* a JSON number with a fraction, kept as its text
JFloat(x) == [t |-> "float", v |-> 0, s |-> x]

\* the JSON objects load_settings may be handed
LoadFiles ==
    {BadFile,
     FileOf(JInt(0), JStr("Sleep")),
     FileOf(JInt(-1), JStr("Nap")),
     FileOf(JBool(TRUE), JStr("Hibernate")),
     FileOf(JFloat("2.5"), JNull),
     FileOf(JInt(2), JStr("Hibernate"))}

SaveOutcomes == {"ok", "open_failed", "write_failed"}

\* a save that writes the duration and loses the chosen action
save_settings_drops_action(file, seconds, action, outcome) ==
    CASE outcome = "ok" -> FileOf(JInt(seconds), JStr("Sleep"))
      [] outcome = "open_failed" -> file
      [] OTHER -> BadFile

\* save_settings: json.dump of both fields; an IOError is printed and swallowed
\* (open() failed: the file is as it was; the write failed: it is cut short)
save_settings(file, seconds, action, outcome) ==
    CASE outcome = "ok" -> FileOf(JInt(seconds), JStr(action))
      [] outcome = "open_failed" -> file
      [] OTHER -> BadFile

\* isinstance(x, int): bool is a subclass of int
IsInstanceInt(j) == j.t \in {"int", "bool"}

\* str(x) of a value that passed isinstance(x, int)
StrOf(j) ==
    IF j.t = "bool"
    THEN (IF j.v = 1 THEN <<"T", "r", "u", "e">> ELSE <<"F", "a", "l", "s", "e">>)
    ELSE IntToStr(j.v)

\* load_settings: the (entry text, checked radio) it leaves behind
load_settings(file) ==
    IF file.kind # "json" THEN [text |-> <<>>, checked |-> "Sleep"]
    ELSE [text |-> IF IsInstanceInt(file.last_duration)
                   THEN StrOf(file.last_duration) ELSE <<>>,
          checked |-> IF file.last_action = JStr("Hibernate")
                      THEN "Hibernate" ELSE "Sleep"]

\* a label whose numbers are not padded
Pad2_unpadded(n) == IntToStr(n)

\* the format spec 02 of an f-string: at least two characters, zeros in front
Pad2(n) == IF 0 <= n /\ n < 10 THEN <<"0">> \o IntToStr(n) ELSE IntToStr(n)

\* CircularTimerWidget.paintEvent: the text drawn in the middle of the ring
time_str(remaining) ==
    LET mins == remaining \div 60
        secs == remaining % 60
    IN  Pad2(mins) \o <<":">> \o Pad2(secs)

\* CircularTimerWidget.paintEvent: the sweep of the ring in degrees, rounded
\* down to a whole degree; 360 is the full ring, 0 draws nothing
SweepAngle(widget) ==
    IF widget.total_seconds > 0
    THEN (360 * widget.remaining_seconds) \div widget.total_seconds
    ELSE 0

\* ------------------------------------------------------------------- state
VARIABLES
    isWindows,              \* platform.system() == "Windows"
    settings_file,          \* contents of settings.json
    entry_text,             \* self.entry.text()
    checked,                \* which radio button is checked
    total_seconds, remaining_seconds, is_cancelled,
    timer_active,           \* self.timer.isActive()
    tick_wait,              \* seconds before the timer's next timeout is due
    status_label,
    schedule_btn_visible, cancel_btn_visible,
    entry_enabled, sleep_radio_enabled, hibernate_radio_enabled,
    circular_timer,         \* CircularTimerWidget.(total_seconds, remaining_seconds)
    workers,                \* the delayed_action threads, in spawn order
    op,                     \* history: the last operation
    ticks,                  \* history: timeouts since the last start
    expiries                \* history: expiries since the last start

countdown == <<total_seconds, remaining_seconds, is_cancelled>>

controls ==
    <<schedule_btn_visible, cancel_btn_visible, entry_enabled,
      sleep_radio_enabled, hibernate_radio_enabled>>

inputs == <<entry_text, checked>>

vars ==
    <<isWindows, settings_file, entry_text, checked, total_seconds,
      remaining_seconds, is_cancelled, timer_active, tick_wait, status_label,
      schedule_btn_visible, cancel_btn_visible, entry_enabled,
      sleep_radio_enabled, hibernate_radio_enabled, circular_timer, workers,
      op, ticks, expiries>>

Status(text, action, delay) == [text |-> text, action |-> action, delay |-> delay]

StatusEmpty == Status("", "", 0)
StatusScheduled(action, delay) == Status("Scheduled", action, delay)
StatusCancelled == Status("Action cancelled.", "", 0)
StatusExecuted == Status("Action executed.", "", 0)

\* CircularTimerWidget.set_timer
set_timer(total, remaining) == [total_seconds |-> total, remaining_seconds |-> remaining]

\* SleepScheduler.__init__
\* SleepScheduler.__init__ once the settings file is known
Constructed ==
    /\ isWindows \in BOOLEAN
    /\ entry_text = load_settings(settings_file).text
    /\ checked = load_settings(settings_file).checked
    /\ total_seconds = 0
    /\ remaining_seconds = 0
    /\ is_cancelled = FALSE
    /\ timer_active = FALSE
    /\ tick_wait = 0
    /\ status_label = StatusEmpty
    /\ schedule_btn_visible = TRUE
    /\ cancel_btn_visible = FALSE
    /\ entry_enabled = TRUE
    /\ sleep_radio_enabled = TRUE
    /\ hibernate_radio_enabled = TRUE
    /\ circular_timer = set_timer(1, 1)
    /\ workers = <<>>
    /\ op = "init"
    /\ ticks = 0
    /\ expiries = 0

Init ==
    /\ settings_file \in StartFiles
    /\ Constructed

\* start-up on a settings file written by anything: an earlier version, an
\* editor, a write cut short
InitLoad ==
    /\ settings_file \in LoadFiles
    /\ Constructed

\* a thread running delayed_action(delay, action)
Worker(delay, action) ==
    [delay |-> delay, action |-> action, pc |-> "sleep",
     left |-> delay,            \* seconds of time.sleep still to pass
     cancelled |-> FALSE,       \* history: cancel_action hit its countdown
     cancelled_early |-> FALSE, \* history: ... before its check of the flag
     invoked |-> 0,             \* power actions it has invoked
     call |-> "",               \* the platform call it made
     posted |-> 0]              \* "Unsupported OS" notices it has posted

Alive(w) == w.pc # "done"

AliveWorkers == {i \in 1..Len(workers) : Alive(workers[i])}

\* a validation that lets 0 through
ValidDelay_accepts_zero(text) == ParseInt(text).ok /\ ParseInt(text).val >= 0

\* schedule_action: delay = int(text); ValueError unless delay > 0
ValidDelay(text) == ParseInt(text).ok /\ ParseInt(text).val > 0

\* schedule_action: the controls while a countdown runs
ControlsActive ==
    /\ schedule_btn_visible' = FALSE
    /\ cancel_btn_visible' = TRUE
    /\ entry_enabled' = FALSE
    /\ sleep_radio_enabled' = FALSE
    /\ hibernate_radio_enabled' = FALSE

\* a reset that leaves the Cancel button on screen
ControlsReset_keeps_cancel ==
    /\ UNCHANGED cancel_btn_visible
    /\ schedule_btn_visible' = TRUE
    /\ entry_enabled' = TRUE
    /\ sleep_radio_enabled' = TRUE
    /\ hibernate_radio_enabled' = TRUE

\* cancel_action / update_timer: the controls after the countdown ended
ControlsReset ==
    /\ cancel_btn_visible' = FALSE
    /\ schedule_btn_visible' = TRUE
    /\ entry_enabled' = TRUE
    /\ sleep_radio_enabled' = TRUE
    /\ hibernate_radio_enabled' = TRUE

\* a schedule that does not clear the flag of an earlier cancel
schedule_action_keeps_flag(outcome) ==
    IF ~ValidDelay(entry_text)
    THEN /\ op' = "invalid"
         /\ UNCHANGED <<isWindows, settings_file, inputs, countdown, timer_active,
                        tick_wait, status_label, controls, circular_timer,
                        workers, ticks, expiries>>
    ELSE LET delay == ParseInt(entry_text).val
             action == IF checked = "Sleep" THEN "Sleep" ELSE "Hibernate"
         IN  /\ Len(workers) < MaxWorkers
             /\ UNCHANGED is_cancelled
             /\ settings_file' = save_settings(settings_file, delay, action, outcome)
             /\ status_label' = StatusScheduled(action, delay)
             /\ total_seconds' = delay
             /\ remaining_seconds' = delay
             /\ circular_timer' = set_timer(delay, delay)
             /\ timer_active' = TRUE
             /\ tick_wait' = 1
             /\ ControlsActive
             /\ workers' = Append(workers, Worker(delay, action))
             /\ op' = "schedule"
             /\ ticks' = 0
             /\ expiries' = 0
             /\ UNCHANGED <<isWindows, inputs>>

\* SleepScheduler.schedule_action
schedule_action(outcome) ==
    IF ~ValidDelay(entry_text)
    THEN /\ op' = "invalid"
         /\ UNCHANGED <<isWindows, settings_file, inputs, countdown, timer_active,
                        tick_wait, status_label, controls, circular_timer,
                        workers, ticks, expiries>>
    ELSE LET delay == ParseInt(entry_text).val
             action == IF checked = "Sleep" THEN "Sleep" ELSE "Hibernate"
         IN  /\ Len(workers) < MaxWorkers
             /\ is_cancelled' = FALSE
             /\ settings_file' = save_settings(settings_file, delay, action, outcome)
             /\ status_label' = StatusScheduled(action, delay)
             /\ total_seconds' = delay
             /\ remaining_seconds' = delay
             /\ circular_timer' = set_timer(delay, delay)
             /\ timer_active' = TRUE
             /\ tick_wait' = 1
             /\ ControlsActive
             /\ workers' = Append(workers, Worker(delay, action))
             /\ op' = "schedule"
             /\ ticks' = 0
             /\ expiries' = 0
             /\ UNCHANGED <<isWindows, inputs>>

\* history: which workers a cancel_action marks
MarkCancelled ==
    [i \in 1..Len(workers) |->
        IF timer_active /\ i = Len(workers)
        THEN [workers[i] EXCEPT !.cancelled = TRUE,
                                !.cancelled_early = (workers[i].pc = "sleep")]
        ELSE workers[i]]

\* a cancel that leaves the QTimer running
StopCountdown_keeps_timer ==
    /\ is_cancelled' = TRUE
    /\ UNCHANGED <<timer_active, tick_wait>>

\* a cancel that does not raise the flag
StopCountdown_keeps_flag ==
    /\ UNCHANGED is_cancelled
    /\ timer_active' = FALSE
    /\ tick_wait' = 0

\* cancel_action: self.is_cancelled = True; self.timer.stop()
StopCountdown ==
    /\ is_cancelled' = TRUE
    /\ timer_active' = FALSE
    /\ tick_wait' = 0

\* a cancel that clears total_seconds only
ResetCountdown_keeps_remaining ==
    /\ total_seconds' = 0
    /\ UNCHANGED remaining_seconds
    /\ circular_timer' = set_timer(0, 0)
    /\ status_label' = StatusCancelled

\* cancel_action: both counters to 0, the ring to (0, 0), the status text
ResetCountdown ==
    /\ total_seconds' = 0
    /\ remaining_seconds' = 0
    /\ circular_timer' = set_timer(0, 0)
    /\ status_label' = StatusCancelled

\* SleepScheduler.cancel_action
cancel_action ==
    /\ StopCountdown
    /\ ResetCountdown
    /\ ControlsReset
    /\ workers' = MarkCancelled
    /\ op' = "cancel"
    /\ UNCHANGED <<isWindows, settings_file, inputs, ticks, expiries>>

\* an expiry test that fires one timeout early
TimerExpired_at_zero(remaining) == remaining <= 0

\* update_timer: if self.remaining_seconds < 0
TimerExpired(remaining) == remaining < 0

\* a tick that hands every value to the ring, the -1 of the expiry included
RingShown_always(remaining) == TRUE

\* update_timer: if self.remaining_seconds >= 0, the ring is given the value
RingShown(remaining) == remaining >= 0

\* SleepScheduler.update_timer, run by a timeout of self.timer
update_timer ==
    /\ timer_active
    /\ tick_wait = 0
    /\ remaining_seconds' = remaining_seconds - 1
    /\ circular_timer' =
        IF RingShown(remaining_seconds') THEN set_timer(total_seconds, remaining_seconds')
        ELSE circular_timer
    /\ IF TimerExpired(remaining_seconds')
       THEN /\ timer_active' = FALSE
            /\ status_label' = IF ~is_cancelled THEN StatusExecuted ELSE status_label
            /\ ControlsReset
            /\ expiries' = expiries + 1
            /\ tick_wait' = 0
       ELSE /\ tick_wait' = 1
            /\ UNCHANGED <<timer_active, status_label, controls, expiries>>
    /\ op' = "tick"
    /\ ticks' = ticks + 1
    /\ UNCHANGED <<isWindows, settings_file, inputs, total_seconds, is_cancelled,
                   workers>>

\* a worker that, finding the flag set, stays where it is until it is cleared
delayed_action_check_blocks(i) ==
    /\ workers[i].pc = "sleep"
    /\ workers[i].left = 0
    /\ ~is_cancelled
    /\ workers' = [workers EXCEPT ![i].pc = "act"]
    /\ op' = "worker"
    /\ UNCHANGED <<isWindows, settings_file, inputs, countdown, timer_active,
                   tick_wait, status_label, controls, circular_timer, ticks,
                   expiries>>

\* a wait that a cancel cuts short: the flag is read before the delay is over
delayed_action_check_early(i) ==
    /\ workers[i].pc = "sleep"
    /\ workers[i].left = 0 \/ is_cancelled
    /\ workers' = [workers EXCEPT ![i].pc = IF is_cancelled THEN "done" ELSE "act"]
    /\ op' = "worker"
    /\ UNCHANGED <<isWindows, settings_file, inputs, countdown, timer_active,
                   tick_wait, status_label, controls, circular_timer, ticks,
                   expiries>>

\* delayed_action: time.sleep(delay) returns and the thread reads is_cancelled
delayed_action_check(i) ==
    /\ workers[i].pc = "sleep"
    /\ workers[i].left = 0
    /\ workers' = [workers EXCEPT ![i].pc = IF is_cancelled THEN "done" ELSE "act"]
    /\ op' = "worker"
    /\ UNCHANGED <<isWindows, settings_file, inputs, countdown, timer_active,
                   tick_wait, status_label, controls, circular_timer, ticks,
                   expiries>>

\* the platform call of delayed_action for its action
PlatformCall(action) ==
    IF action = "Sleep" THEN "SetSuspendState"
    ELSE IF action = "Hibernate" THEN "shutdown /h"
    ELSE ""

\* a worker that takes the action from the radio buttons when it wakes
delayed_action_act_reads_radio(i) ==
    /\ workers[i].pc = "act"
    /\ IF isWindows
       THEN workers' = [workers EXCEPT ![i].pc = "done",
                                       ![i].invoked = @ + 1,
                                       ![i].call = PlatformCall(checked)]
       ELSE workers' = [workers EXCEPT ![i].pc = "done", ![i].posted = @ + 1]
    /\ op' = "worker"
    /\ UNCHANGED <<isWindows, settings_file, inputs, countdown, timer_active,
                   tick_wait, status_label, controls, circular_timer, ticks,
                   expiries>>

\* delayed_action: the platform branch after the flag was read clear
delayed_action_act(i) ==
    /\ workers[i].pc = "act"
    /\ IF isWindows
       THEN workers' = [workers EXCEPT ![i].pc = "done",
                                       ![i].invoked = @ + 1,
                                       ![i].call = PlatformCall(workers[i].action)]
       ELSE workers' = [workers EXCEPT ![i].pc = "done", ![i].posted = @ + 1]
    /\ op' = "worker"
    /\ UNCHANGED <<isWindows, settings_file, inputs, countdown, timer_active,
                   tick_wait, status_label, controls, circular_timer, ticks,
                   expiries>>

\* ------------------------------------------------------------- environment
\* the user clicks the Schedule button
ClickSchedule ==
    schedule_btn_visible /\ \E outcome \in SaveOutcomes : schedule_action(outcome)

\* the user clicks the Cancel button
ClickCancel == cancel_btn_visible /\ cancel_action

\* the user edits the seconds field
EditEntry ==
    /\ entry_enabled
    /\ \E t \in Texts : entry_text' = t
    /\ op' = "env"
    /\ UNCHANGED <<isWindows, settings_file, checked, countdown, timer_active,
                   tick_wait, status_label, controls, circular_timer, workers,
                   ticks, expiries>>

\* the user clicks a radio button
ClickRadio ==
    /\ \E a \in Actions :
        /\ IF a = "Sleep" THEN sleep_radio_enabled ELSE hibernate_radio_enabled
        /\ checked' = a
    /\ op' = "env"
    /\ UNCHANGED <<isWindows, settings_file, entry_text, countdown, timer_active,
                   tick_wait, status_label, controls, circular_timer, workers,
                   ticks, expiries>>

\* a second passes: every running sleep and the timer's interval get shorter
Advance ==
    /\ workers' = [i \in 1..Len(workers) |->
                    IF workers[i].left > 0
                    THEN [workers[i] EXCEPT !.left = @ - 1] ELSE workers[i]]
    /\ tick_wait' = IF tick_wait > 0 THEN tick_wait - 1 ELSE 0
    /\ op' = "env"
    /\ UNCHANGED <<isWindows, settings_file, inputs, countdown, timer_active,
                   status_label, controls, circular_timer, ticks, expiries>>

WorkerStep == \E i \in 1..Len(workers) : delayed_action_check(i) \/ delayed_action_act(i)

Next ==
    \/ ClickSchedule
    \/ ClickCancel
    \/ EditEntry
    \/ ClickRadio
    \/ update_timer
    \/ WorkerStep
    \/ Advance

Spec == Init /\ [][Next]_vars

\* cancel_action called on the window while no countdown runs
CancelIdle == ~timer_active /\ cancel_action

NextApi == Next \/ CancelIdle

SpecApi == Init /\ [][NextApi]_vars

SpecLoad == InitLoad /\ [][Next]_vars

\* what worker i does once it is started
WorkerRuns(i) ==
    /\ i \in 1..Len(workers)
    /\ delayed_action_check(i) \/ delayed_action_act(i)

\* the user clicks the Schedule button and the settings file can be written
ClickScheduleSaved == schedule_btn_visible /\ schedule_action("ok")

\* the program with a disk that takes every write: a failed save changes
\* settings_file alone and no step reads that file after start-up
NextFair ==
    \/ ClickScheduleSaved
    \/ ClickCancel
    \/ EditEntry
    \/ ClickRadio
    \/ update_timer
    \/ WorkerStep
    \/ Advance

\* time passes, the Qt event loop delivers a timeout that is due and the
\* operating system lets every started thread run; the user is not obliged
\* to do anything
SpecFair ==
    /\ Init
    /\ [][NextFair]_vars
    /\ WF_vars(Advance)
    /\ WF_vars(update_timer)
    /\ \A i \in 1..MaxWorkers : WF_vars(WorkerRuns(i))

\* a long countdown left alone: the window right after schedule_action took
\* PaintTotal seconds and Sleep on a first start, then timeouts delivered on
\* time and the worker, with no more input from the user
InitPaint ==
    /\ isWindows \in BOOLEAN
    /\ settings_file = FileOf(JInt(PaintTotal), JStr("Sleep"))
    /\ entry_text = IntToStr(PaintTotal)
    /\ checked = "Sleep"
    /\ total_seconds = PaintTotal
    /\ remaining_seconds = PaintTotal
    /\ is_cancelled = FALSE
    /\ timer_active = TRUE
    /\ tick_wait = 1
    /\ status_label = StatusScheduled("Sleep", PaintTotal)
    /\ schedule_btn_visible = FALSE
    /\ cancel_btn_visible = TRUE
    /\ entry_enabled = FALSE
    /\ sleep_radio_enabled = FALSE
    /\ hibernate_radio_enabled = FALSE
    /\ circular_timer = set_timer(PaintTotal, PaintTotal)
    /\ workers = <<Worker(PaintTotal, "Sleep")>>
    /\ op = "schedule"
    /\ ticks = 0
    /\ expiries = 0

AdvanceToTick == tick_wait > 0 /\ Advance

NextPaint == update_timer \/ AdvanceToTick \/ WorkerStep

SpecPaint == InitPaint /\ [][NextPaint]_vars

TypeOK ==
    /\ isWindows \in BOOLEAN
    /\ checked \in Actions
    /\ total_seconds \in 0..MaxDelay
    /\ remaining_seconds \in (-1)..MaxDelay
    /\ is_cancelled \in BOOLEAN
    /\ timer_active \in BOOLEAN
    /\ Len(workers) <= MaxWorkers
    /\ tick_wait \in 0..1

\* ------------------------------------------------------------------ claims
LastWorker == workers[Len(workers)]

\* C1: a worker whose countdown was cancelled before it read the flag never
\* invokes the platform power action, whatever follows the cancel.
C1_CancelSuppressesAction ==
    \A i \in 1..Len(workers) : workers[i].cancelled_early => workers[i].invoked = 0

\* C2: at most one delayed_action thread is alive in every reachable state.
C2_AtMostOneWorkerAlive == Cardinality(AliveWorkers) <= 1

\* C3: on Windows a worker whose countdown was never cancelled invokes its
\* power action exactly once: once when it has returned, never more than once.
C3_UncancelledFiresExactlyOnce ==
    isWindows =>
        \A i \in 1..Len(workers) :
            /\ workers[i].invoked <= 1
            /\ (workers[i].pc = "done" /\ ~workers[i].cancelled) => workers[i].invoked = 1

\* C4: a cancel_action step taken while the countdown runs ends with total 0,
\* remaining 0, the flag set, the timer stopped and the status "Action
\* cancelled."; while the timer is stopped no timeout is applied, and only
\* schedule_action starts it again.
C4_CancelResetsAndStops ==
    [][/\ (op' = "cancel" /\ timer_active) =>
            /\ total_seconds' = 0
            /\ remaining_seconds' = 0
            /\ is_cancelled' = TRUE
            /\ timer_active' = FALSE
            /\ status_label'.text = "Action cancelled."
       /\ ~timer_active => op' # "tick"
       /\ (~timer_active /\ timer_active') => op' = "schedule"]_vars

C4_Witness ==
    /\ op = "cancel"
    /\ ticks = 1
    /\ LastWorker.delay = 2
    /\ LastWorker.cancelled
    /\ countdown = <<0, 0, TRUE>>

\* C5: a countdown of d seconds expires on its (d+1)-th timeout and only then,
\* once; the expiry stops the timer and shows "Action executed.", and
\* remaining_seconds is never below -1.
C5_ExpiresOnceOnTickDPlusOne ==
    /\ remaining_seconds >= -1
    /\ expiries <= 1
    /\ timer_active => (expiries = 0 /\ ticks <= LastWorker.delay)
    /\ expiries = 1 =>
        /\ ~timer_active
        /\ ticks = LastWorker.delay + 1
        /\ status_label.text = "Action executed."
    /\ (workers # <<>> /\ ticks = LastWorker.delay + 1) => expiries = 1

C5_Witness ==
    /\ expiries = 1
    /\ ticks = 3
    /\ LastWorker.delay = 2
    /\ ~LastWorker.cancelled
    /\ remaining_seconds = -1

\* the seconds field does not hold a positive integer
NotPositiveInteger(text) == ~ParseInt(text).ok \/ ParseInt(text).val < 1

\* C6: schedule_action on a field that holds no positive integer reports the
\* error and changes nothing: countdown, timer, controls, inputs, status,
\* display, settings file and workers stay as they were.
C6_InvalidInputChangesNothing ==
    [][(op' \in {"schedule", "invalid"} /\ NotPositiveInteger(entry_text)) =>
            /\ op' = "invalid"
            /\ UNCHANGED <<countdown, timer_active, tick_wait, controls, inputs,
                           status_label, circular_timer, settings_file, workers>>]_vars

C6_Witness ==
    /\ op = "invalid"
    /\ entry_text = <<"-", "1">>
    /\ workers # <<>>

\* C7: remaining_seconds never exceeds total_seconds.
C7_RemainingAtMostTotal == remaining_seconds <= total_seconds

C7_Witness == op = "tick" /\ timer_active /\ remaining_seconds = 0 /\ total_seconds = 2

\* C8 as stated: whenever the timer is stopped the countdown state is {0, 0, false}.
C8_IdleIsReset ==
    ~timer_active => (total_seconds = 0 /\ remaining_seconds = 0 /\ ~is_cancelled)

\* C8 as amended: whenever the timer is stopped the countdown state is
\* {0, 0, false} before the first schedule, {0, 0, true} after a cancel and
\* {d, -1, false} after the expiry of a countdown of d seconds.
C8_IdleStates ==
    ~timer_active =>
        \/ workers = <<>> /\ countdown = <<0, 0, FALSE>>
        \/ workers # <<>> /\ LastWorker.cancelled /\ countdown = <<0, 0, TRUE>>
        \/ /\ workers # <<>> /\ ~LastWorker.cancelled /\ expiries = 1
           /\ countdown = <<LastWorker.delay, -1, FALSE>>

C8_Witness ==
    /\ ~timer_active
    /\ expiries = 1
    /\ countdown = <<1, -1, FALSE>>
    /\ Len(workers) = 2
    /\ workers[1].cancelled

\* C9: a cancel_action step taken while no countdown runs changes nothing.
C9_CancelWhenIdleIsNoOp ==
    [][(op' = "cancel" /\ ~timer_active) =>
            UNCHANGED <<countdown, status_label, timer_active, controls>>]_vars

\* C10: off Windows no worker invokes a power action, a worker whose countdown
\* was never cancelled posts exactly one notice when it returns, a worker
\* cancelled before its check posts none, and an expired countdown shows
\* "Action executed.".
C10_UnsupportedPlatformNotice ==
    ~isWindows =>
        /\ \A i \in 1..Len(workers) :
            /\ workers[i].invoked = 0
            /\ workers[i].posted <= 1
            /\ (workers[i].pc = "done" /\ ~workers[i].cancelled) => workers[i].posted = 1
            /\ workers[i].cancelled_early => workers[i].posted = 0
        /\ expiries = 1 => status_label.text = "Action executed."

\* C11: the Cancel button is visible exactly while the timer runs, the
\* Schedule button is visible and the field and both radio buttons are enabled
\* exactly while it does not; a schedule_action step is taken only when no
\* countdown runs: before the first one, after an expiry or after a cancel.
C11_ControlsMatchCountdown ==
    /\ [](/\ cancel_btn_visible = timer_active
          /\ schedule_btn_visible = ~timer_active
          /\ entry_enabled = ~timer_active
          /\ sleep_radio_enabled = ~timer_active
          /\ hibernate_radio_enabled = ~timer_active)
    /\ [][op' \in {"schedule", "invalid"} =>
            /\ ~timer_active
            /\ \/ workers = <<>>
               \/ expiries = 1 /\ remaining_seconds = -1
               \/ LastWorker.cancelled /\ status_label.text = "Action cancelled."]_vars

C11_Witness ==
    /\ op = "schedule"
    /\ Len(workers) = 2
    /\ workers[1].cancelled
    /\ cancel_btn_visible
    /\ ~schedule_btn_visible
    /\ ~entry_enabled

\* the settings a schedule of d seconds and action a is to persist
C12_Persisted(d, a) ==
    [kind |-> "json",
     last_duration |-> [t |-> "int", v |-> d, s |-> ""],
     last_action |-> [t |-> "str", v |-> 0, s |-> a]]

\* what a load_settings of the file restores: same duration, same action
C12_Restores(file, d, a) ==
    /\ ParseInt(load_settings(file).text) = [ok |-> TRUE, val |-> d]
    /\ load_settings(file).checked = a

\* a window built without a settings file shows no duration and Sleep
C12_MissingFileDefaults ==
    (op = "init" /\ settings_file.kind = "missing") =>
        (entry_text = <<>> /\ checked = "Sleep")

\* C12: after every successful schedule_action(d, a) the persisted settings
\* are exactly (last_duration = d, last_action = a) and a following
\* load_settings restores d and a; load_settings on a missing file leaves the
\* defaults.
C12_SettingsRoundTrip ==
    /\ []C12_MissingFileDefaults
    /\ [][op' = "schedule" =>
            LET d == ParseInt(entry_text).val
                a == checked
            IN  /\ settings_file' = C12_Persisted(d, a)
                /\ C12_Restores(settings_file', d, a)]_vars

\* C12 (amended): after every successful schedule_action(d, a) whose
\* save_settings met no I/O error the persisted settings are exactly
\* (last_duration = d, last_action = a) and a following load_settings restores
\* d and a; when the save failed the countdown starts all the same and the
\* file is as it was or is cut short; load_settings on a missing file leaves
\* the defaults.
C12_SavedSettingsRoundTrip ==
    /\ []C12_MissingFileDefaults
    /\ [][op' = "schedule" =>
            LET d == ParseInt(entry_text).val
                a == checked
            IN  /\ schedule_action("ok") =>
                    /\ settings_file' = C12_Persisted(d, a)
                    /\ C12_Restores(settings_file', d, a)
                /\ \/ settings_file' = C12_Persisted(d, a)
                   \/ settings_file' = settings_file
                   \/ settings_file'.kind = "corrupt"]_vars

C12_Witness ==
    /\ op = "schedule"
    /\ LastWorker.delay = 2
    /\ LastWorker.action = "Sleep"
    /\ entry_text = <<"2">>
    /\ settings_file = C12_Persisted(2, "Sleep")
    /\ load_settings(settings_file).text = <<"2">>

\* C13: load_settings validates what it reads: the persisted last_duration is
\* prefilled only if it is a positive integer (zero, a negative or a
\* non-integer value leaves the field empty), and a last_action that is not
\* one of the two known values leaves Sleep selected.
C13_LoadValidates ==
    op = "init" =>
        LET dur == settings_file.last_duration
            act == settings_file.last_action
            positive == /\ settings_file.kind = "json"
                        /\ dur.t = "int"
                        /\ dur.v > 0
            known == /\ settings_file.kind = "json"
                     /\ act.t = "str"
                     /\ act.s \in {"Sleep", "Hibernate"}
        IN  /\ positive => entry_text = IntToStr(dur.v)
            /\ ~positive => entry_text = <<>>
            /\ ~known => checked = "Sleep"

\* C14: the values handed to the ring satisfy 0 <= remaining <= total whenever
\* total > 0; the sweep is never negative nor above the full ring; it is the
\* full ring right after a start and nothing when remaining is 0 or total is
\* 0; at the expiry the internal -1 is not handed over and the ring stays at 0.
C14_RingWithinBounds ==
    /\ circular_timer.total_seconds > 0 =>
        /\ 0 <= circular_timer.remaining_seconds
        /\ circular_timer.remaining_seconds <= circular_timer.total_seconds
    /\ 0 <= SweepAngle(circular_timer)
    /\ SweepAngle(circular_timer) <= 360
    /\ op = "schedule" => SweepAngle(circular_timer) = 360
    /\ circular_timer.remaining_seconds = 0 => SweepAngle(circular_timer) = 0
    /\ circular_timer.total_seconds = 0 => SweepAngle(circular_timer) = 0
    /\ circular_timer.remaining_seconds # -1
    /\ (op = "tick" /\ remaining_seconds = -1) =>
        /\ circular_timer.remaining_seconds = 0
        /\ circular_timer.total_seconds = total_seconds

C14_Witness ==
    /\ op = "tick"
    /\ expiries = 1
    /\ remaining_seconds = -1
    /\ total_seconds = 2
    /\ circular_timer = [total_seconds |-> 2, remaining_seconds |-> 0]

\* C15: for every r >= 0 handed to the ring its label is MM:SS with
\* MM = r div 60 and SS = r mod 60, each padded with a zero to two digits:
\* 125 gives 02:05, 0 gives 00:00, 3599 gives 59:59.
C15_RingLabel ==
    LET r == circular_timer.remaining_seconds
        m == r \div 60
        s == r % 60
    IN  r >= 0 =>
            /\ m < 100 => time_str(r) = <<Digits[(m \div 10) + 1], Digits[(m % 10) + 1],
                                          ":",
                                          Digits[(s \div 10) + 1], Digits[(s % 10) + 1]>>
            /\ r = 125 => time_str(r) = <<"0", "2", ":", "0", "5">>
            /\ r = 0 => time_str(r) = <<"0", "0", ":", "0", "0">>
            /\ r = 3599 => time_str(r) = <<"5", "9", ":", "5", "9">>

C15_Witness ==
    /\ op = "tick"
    /\ circular_timer.remaining_seconds = 125
    /\ time_str(circular_timer.remaining_seconds) = <<"0", "2", ":", "0", "5">>

\* C16: whenever the countdown is still active (Cancel visible, remaining
\* between 0 and total) the worker of that schedule has not yet read the flag
\* after its wait, so "Action cancelled." is never shown for a schedule whose
\* power action has already been invoked.
C16_CancelOfferedOnlyWhileEffective ==
    /\ (/\ timer_active
        /\ cancel_btn_visible
        /\ 0 <= remaining_seconds
        /\ remaining_seconds <= total_seconds) => LastWorker.pc = "sleep"
    /\ (workers # <<>> /\ status_label.text = "Action cancelled.") =>
            LastWorker.invoked = 0

\* C17: the wait of a worker cannot be interrupted: cancel_action leaves every
\* worker as it is (a waiting worker stays alive and waiting) while the window
\* shows the cancelled status in that same step; a worker leaves its wait only
\* when the whole delay has passed, reads the flag there once, and returns at
\* that point if the flag is set.
C17_WaitNotInterruptible ==
    [][/\ op' = "cancel" =>
            /\ status_label'.text = "Action cancelled."
            /\ Len(workers') = Len(workers)
            /\ \A i \in 1..Len(workers) :
                /\ workers'[i].pc = workers[i].pc
                /\ workers'[i].left = workers[i].left
                /\ workers'[i].invoked = workers[i].invoked
                /\ workers'[i].posted = workers[i].posted
       /\ \A i \in 1..Len(workers) :
            /\ (workers[i].pc = "sleep" /\ workers'[i].pc # "sleep") =>
                    /\ workers[i].left = 0
                    /\ op' = "worker"
                    /\ workers'[i].pc = IF is_cancelled THEN "done" ELSE "act"
            /\ workers[i].pc # "sleep" => workers'[i].pc # "sleep"
            /\ workers'[i].left # workers[i].left =>
                    /\ op' = "env"
                    /\ workers'[i].left = workers[i].left - 1]_vars

C17_Witness ==
    /\ op = "worker"
    /\ status_label.text = "Action cancelled."
    /\ LastWorker.cancelled_early
    /\ LastWorker.delay = 2
    /\ LastWorker.left = 0
    /\ LastWorker.pc = "done"
    /\ LastWorker.invoked = 0

\* C18: whenever the timer runs is_cancelled is false, so the test of the flag
\* in update_timer never holds back the status of the expiry: every countdown
\* that reaches remaining < 0 shows "Action executed.".
C18_RunningTimerNotCancelled ==
    /\ timer_active => ~is_cancelled
    /\ (op = "tick" /\ remaining_seconds < 0) =>
            /\ ~timer_active
            /\ status_label.text = "Action executed."

C18_Witness ==
    /\ op = "tick"
    /\ remaining_seconds < 0
    /\ Len(workers) = 2
    /\ workers[1].cancelled
    /\ ~is_cancelled
    /\ status_label.text = "Action executed."

\* C19: a schedule request is immutable: the worker is spawned with the delay
\* and the action that schedule_action validated, waits that delay, and the
\* power action it invokes is the one of that action, whatever the user does
\* to the radio buttons or the field, and whatever cancel or schedule follows.
C19_RequestImmutable ==
    [][/\ op' = "schedule" =>
            LET w == workers'[Len(workers')]
            IN  /\ Len(workers') = Len(workers) + 1
                /\ ParseInt(entry_text).ok
                /\ w.delay = ParseInt(entry_text).val
                /\ w.delay > 0
                /\ w.left = w.delay
                /\ w.action = checked
       /\ \A i \in 1..Len(workers) :
            /\ workers'[i].delay = workers[i].delay
            /\ workers'[i].action = workers[i].action
            /\ workers'[i].left <= workers[i].delay
            /\ (workers[i].pc = "sleep" /\ workers'[i].pc # "sleep") =>
                    workers[i].left = 0
            /\ workers'[i].invoked > workers[i].invoked =>
                    workers'[i].call = IF workers[i].action = "Sleep"
                                       THEN "SetSuspendState" ELSE "shutdown /h"]_vars

C19_Witness ==
    \E i \in 1..Len(workers) :
        /\ workers[i].pc = "done"
        /\ workers[i].invoked = 1
        /\ workers[i].delay = 1
        /\ workers[i].action = "Hibernate"
        /\ workers[i].call = "shutdown /h"
        /\ workers[i].cancelled
        /\ checked = "Sleep"
        /\ entry_text = <<"2">>
        /\ Len(workers) = 2

\* C20: when timeouts are delivered and workers are scheduled fairly, every
\* successful schedule_action is resolved in the end: its countdown comes to
\* rest (timer stopped, Schedule button shown, inputs enabled again) and its
\* worker returns.
C20_EveryScheduleResolves ==
    /\ timer_active ~> (/\ ~timer_active
                        /\ schedule_btn_visible
                        /\ ~cancel_btn_visible
                        /\ entry_enabled
                        /\ sleep_radio_enabled
                        /\ hibernate_radio_enabled)
    /\ \A i \in 1..MaxWorkers :
        (Len(workers) >= i) ~> (Len(workers) >= i /\ workers[i].pc = "done")

C20_Witness ==
    /\ Len(workers) = 2
    /\ \A i \in 1..2 : workers[i].pc = "done"
    /\ workers[1].cancelled
    /\ expiries = 1
    /\ ~timer_active
    /\ schedule_btn_visible
    /\ entry_enabled

====
